---- MODULE Spec2Model ----
(***************************************************************************)
(* Library-loan example of src/index.ts: Libro, Usuario, Prestamo, the     *)
(* CalculadoraMulta and Notificador variants and GestorPrestamos.          *)
(*                                                                         *)
(* Instants are whole seconds since the start of the session (a Date's     *)
(* getTime() divided by 1000), so that the day length 1000*60*60*24 ms of  *)
(* devolver_libro is 60*60*24 here.  Every `new Date()` is a reading of    *)
(* the system clock; readings never decrease.                              *)
(***************************************************************************)
EXTENDS Integers, Sequences, FiniteSets, TLC

(* ------------------------------ bounds --------------------------------- *)

\* Prestamo objects constructed in one session.
MaxPrestamos == 2

\* Whole days past the nominal due day at which the clock is read late.
MaxRetraso == 1

(* --------------------------- program constants ------------------------- *)

\* setDate(getDate() + 14)
DIAS_PRESTAMO == 14

\* `return null` of realizar_prestamo; Prestamo objects are numbered from 1.
NULL == 0

HORA == 60 * 60

DIA == 60 * 60 * 24

(* ------------------------------ the session ---------------------------- *)

Libros == {"1984", "Cien anos de soledad"}

\* One borrower: the managers read nothing of a Usuario but its name.
Usuarios == {"Ana Garcia"}

\* gestor_regular and gestor_estudiante as main builds them, and a third
\* manager built with the variants main leaves unused: MultaVIP, and a
\* Notificador that is neither of the two concrete ones (Init).
Gestores == {"gestor_regular", "gestor_estudiante", "gestor_vip"}

Calculadoras == {"MultaEstandar", "MultaEstudiante", "MultaVIP"}

\* The host's time zone: one without daylight saving, and one whose clocks
\* go forward one hour at the instant Cambio (offset 0 before it).
Zonas == {"UTC", "Europe/London"}

Cambio == 7 * DIA + HORA

\* The instants at which the clock may be found to have moved on: the start
\* of the session, the nominal due day of a loan made then, and MaxRetraso
\* whole days after that.
Instantes ==
    {0, DIAS_PRESTAMO * DIA, (DIAS_PRESTAMO + MaxRetraso) * DIA}

VARIABLES
    disponible,         \* Libro.disponible, per book
    heap,               \* the Prestamo objects, in order of construction
    prestamos,          \* GestorPrestamos.prestamos: ids of Prestamo objects
    calculadora_multa,  \* GestorPrestamos.calculadora_multa
    notificador,        \* GestorPrestamos.notificador
    reloj,              \* the last reading of the system clock
    zona,               \* the host's time zone
    enviados,           \* what each manager's notifier was asked to send
    ult                 \* the last call: its return value and what it printed

vars == <<disponible, heap, prestamos, calculadora_multa, notificador,
          reloj, zona, enviados, ult>>

(* ------------------------------ Date ----------------------------------- *)

\* new Date(): a reading of the clock, at one of the instants not before the
\* last reading (the last reading again once the clock is past them all).
Lecturas(desde) ==
    LET S == { t \in Instantes : t >= desde } IN IF S = {} THEN {desde} ELSE S

\* The second new Date() of the Prestamo constructor: the same second as the
\* first reading, or the next one.
LecturasSeguidas(t) == {t, t + 1}

\* Offset of local time from UTC at the UTC instant t.
LocalTZA(z, t) == IF z = "Europe/London" /\ t >= Cambio THEN HORA ELSE 0

\* Offset of local time from UTC at the local time l (a skipped local time
\* is read with the offset before the transition).
LocalTZADeLocal(z, l) ==
    IF z = "Europe/London" /\ l >= Cambio + HORA THEN HORA ELSE 0

\* d.setDate(d.getDate() + n): n calendar days later at the same local
\* wall-clock time.
setDate(z, t, n) ==
    LET local == t + LocalTZA(z, t)
        nuevo == local + n * DIA
    IN  nuevo - LocalTZADeLocal(z, nuevo)

\* d.toISOString().split("T")[0]: the UTC calendar day of d.
FechaISO(t) == t \div DIA

(* ------------------------------ Prestamo ------------------------------- *)

\* constructor(libro, usuario), its two clock readings being t1 and t2.
Prestamo(l, u, z, t1, t2) ==
    [ libro            |-> l,
      usuario          |-> u,
      fecha_prestamo   |-> t1,
      fecha_devolucion |-> setDate(z, t2, DIAS_PRESTAMO),
      devuelto         |-> FALSE ]

(* --------------------------- CalculadoraMulta -------------------------- *)

calcular(c, dias_retraso) ==
    CASE c = "MultaEstandar"   -> dias_retraso * 10
      [] c = "MultaEstudiante" -> dias_retraso * 5
      [] c = "MultaVIP"        -> 0

(* ------------------------------ Notificador ---------------------------- *)

\* What enviar may return: NotificadorEmail and NotificadorSMS return true,
\* any other subclass of the abstract Notificador true or false.
Respuestas(n) ==
    IF n \in {"NotificadorEmail", "NotificadorSMS"} THEN {TRUE} ELSE BOOLEAN

\* What enviar hands to its transport.
enviar(n, mensaje, destinatario) ==
    [ canal |-> n, destinatario |-> destinatario, mensaje |-> mensaje ]

(* ---------------------------- GestorPrestamos -------------------------- *)

\* The record of a call: its return value, the outcome and the values it
\* prints (0 and "" where it prints none), the calls of calcular it made and
\* the answers of enviar it got, and, for a call that changed state, the
\* manager it was made on and the Prestamo it made or returned.
Informe(op, ret, informe, l, u, dias, multa, calculos, envios, g, p) ==
    [ op |-> op, ret |-> ret, informe |-> informe, libro |-> l, usuario |-> u,
      dias_retraso |-> dias, multa |-> multa, calculos |-> calculos,
      envios |-> envios, gestor |-> g, prestamo |-> p ]

\* Mutant: the availability check is missing.
NoDisponible_nunca(l) == FALSE

\* if (!libro.disponible)
NoDisponible(l) == ~disponible[l]

\* Mutant: the book is not marked as lent.
MarcarPrestado_olvidado(disp, l) == disp

\* libro.disponible = false
MarcarPrestado(disp, l) == [disp EXCEPT ![l] = FALSE]

\* this.prestamos.push(prestamo)
Push(lista, p) == Append(lista, p)

\* Mutant: the notification is not sent.
Notificaciones_ninguna(g, l, u, vence, disp, lista) == << >>

\* The calls of this.notificador.enviar made by a successful
\* realizar_prestamo, each with the state it is made in.
Notificaciones(g, l, u, vence, disp, lista) ==
    << [ envio |-> enviar(notificador[g],
                          [titulo |-> l, fecha |-> FechaISO(vence)], u),
         libro_disponible |-> disp[l],
         en_prestamos |-> Len(lista) ] >>

\* Mutant: a failed notification makes the call answer null.
Devuelve_si_enviado(p, ok) == IF ok THEN p ELSE NULL

\* return prestamo, whatever enviar answered.
Devuelve(p, ok) == p

realizar_prestamo(g, l, u) ==
    IF NoDisponible(l)
    THEN /\ ult' = Informe("realizar_prestamo", NULL, "loan-rejected-unavailable",
                           l, "", 0, 0, 0, <<>>, "", NULL)
         /\ UNCHANGED <<disponible, heap, prestamos, calculadora_multa,
                        notificador, reloj, zona, enviados>>
    ELSE /\ Len(heap) < MaxPrestamos
         /\ \E t1 \in Lecturas(reloj) :
            \E t2 \in LecturasSeguidas(t1) :
            \E ok \in Respuestas(notificador[g]) :
              LET disp1  == MarcarPrestado(disponible, l)
                  nuevo  == Prestamo(l, u, zona, t1, t2)
                  p      == Len(heap) + 1
                  lista1 == Push(prestamos[g], p)
                  notas  == Notificaciones(g, l, u, nuevo.fecha_devolucion,
                                           disp1, lista1)
              IN  /\ disponible' = disp1
                  /\ heap' = Append(heap, nuevo)
                  /\ prestamos' = [prestamos EXCEPT ![g] = lista1]
                  /\ enviados' = [enviados EXCEPT ![g] = @ \o notas]
                  /\ reloj' = t2
                  /\ ult' = Informe("realizar_prestamo", Devuelve(p, ok),
                                    "loan-issued", l, u, 0, 0, 0,
                                    [i \in 1..Len(notas) |-> ok], g, p)
                  /\ UNCHANGED <<calculadora_multa, notificador, zona>>

\* Mutant: the already-returned check is missing.
YaDevuelto_nunca(p) == FALSE

\* if (prestamo.devuelto)
YaDevuelto(p) == heap[p].devuelto

\* if (fecha_actual > prestamo.fecha_devolucion)
ConRetraso(fecha_actual, fecha_devolucion) == fecha_actual > fecha_devolucion

\* Mutant: Math.ceil in place of Math.floor.
DiasRetraso_ceil(fecha_actual, fecha_devolucion) ==
    (fecha_actual - fecha_devolucion + DIA - 1) \div DIA

\* Math.floor((fecha_actual.getTime() - fecha_devolucion.getTime()) / one day),
\* taken on the branch where the difference is positive.
DiasRetraso(fecha_actual, fecha_devolucion) ==
    (fecha_actual - fecha_devolucion) \div DIA

\* Mutant: the calculator of the manager that issued the loan.
CalculadoraDe_emisor(g, p) ==
    calculadora_multa[CHOOSE h \in Gestores :
                        \E i \in 1..Len(prestamos[h]) : prestamos[h][i] = p]

\* this.calculadora_multa of the manager the call is made on.
CalculadoraDe(g, p) == calculadora_multa[g]

\* prestamo.devuelto = true
MarcarDevuelto(h, p) == [h EXCEPT ![p].devuelto = TRUE]

\* Mutant: the book is not made available again.
MarcarDisponible_olvidado(disp, l) == disp

\* prestamo.libro.disponible = true
MarcarDisponible(disp, l) == [disp EXCEPT ![l] = TRUE]

devolver_libro(g, p) ==
    IF YaDevuelto(p)
    THEN /\ ult' = Informe("devolver_libro", NULL, "already-returned",
                           "", "", 0, 0, 0, <<>>, "", NULL)
         /\ UNCHANGED <<disponible, heap, prestamos, calculadora_multa,
                        notificador, reloj, zona, enviados>>
    ELSE \E fecha_actual \in Lecturas(reloj) :
           LET vence == heap[p].fecha_devolucion
               tarde == ConRetraso(fecha_actual, vence)
               dias  == DiasRetraso(fecha_actual, vence)
               multa == calcular(CalculadoraDe(g, p), dias)
           IN  /\ heap' = MarcarDevuelto(heap, p)
               /\ disponible' = MarcarDisponible(disponible, heap[p].libro)
               /\ reloj' = fecha_actual
               /\ ult' = IF tarde
                         THEN Informe("devolver_libro", NULL, "returned-late",
                                      heap[p].libro, heap[p].usuario,
                                      dias, multa, 1, <<>>, g, p)
                         ELSE Informe("devolver_libro", NULL, "returned-on-time",
                                      heap[p].libro, heap[p].usuario,
                                      0, 0, 0, <<>>, g, p)
               /\ UNCHANGED <<prestamos, calculadora_multa, notificador,
                              zona, enviados>>

(* ------------------------------ the session ---------------------------- *)

Init ==
    /\ disponible = [l \in Libros |-> TRUE]
    /\ heap = <<>>
    /\ prestamos = [g \in Gestores |-> <<>>]
    /\ calculadora_multa =
         [g \in Gestores |->
            CASE g = "gestor_regular"    -> "MultaEstandar"
              [] g = "gestor_estudiante" -> "MultaEstudiante"
              [] g = "gestor_vip"        -> "MultaVIP"]
    /\ notificador =
         [g \in Gestores |->
            CASE g = "gestor_regular"    -> "NotificadorEmail"
              [] g = "gestor_estudiante" -> "NotificadorSMS"
              [] g = "gestor_vip"        -> "Notificador"]
    /\ reloj = 0
    /\ zona \in Zonas
    /\ enviados = [g \in Gestores |-> <<>>]
    /\ ult = Informe("", NULL, "", "", "", 0, 0, 0, <<>>, "", NULL)

Next ==
    \/ \E g \in Gestores, l \in Libros, u \in Usuarios : realizar_prestamo(g, l, u)
    \/ \E g \in Gestores, p \in 1..Len(heap) : devolver_libro(g, p)

Spec == Init /\ [][Next]_vars

(* ------------------------------- claims -------------------------------- *)

\* The open (not yet returned) loans of book l.
Abiertos(l) == { p \in 1..Len(heap) : heap[p].libro = l /\ ~heap[p].devuelto }

\* The manager whose prestamos holds loan p.
Emisor(p) ==
    CHOOSE h \in Gestores : \E i \in 1..Len(prestamos[h]) : prestamos[h][i] = p

\* The fine of each variant for k days, as the specification tabulates it.
Tarifa(c, k) ==
    CASE c = "MultaEstandar"   -> 10 * k
      [] c = "MultaEstudiante" -> 5 * k
      [] c = "MultaVIP"        -> 0

\* C1: in every reachable state each book is available exactly when no loan
\* of it is open, and no book has more than one open loan.
C1_DisponibleSiiSinAbierto ==
    \A l \in Libros :
        /\ disponible[l] <=> (Abiertos(l) = {})
        /\ Cardinality(Abiertos(l)) <= 1

\* C1 witness: one book lent a second time after its first loan was
\* returned, the two loans issued through different managers, the other book
\* still available.
C1_Witness ==
    \E p, q \in 1..Len(heap) :
        /\ heap[p].libro = heap[q].libro
        /\ heap[p].devuelto /\ ~heap[q].devuelto
        /\ Emisor(p) # Emisor(q)
        /\ \E l \in Libros : disponible[l]

\* C2: realizar_prestamo on a book that is not available returns null and
\* changes neither the book, nor any Prestamo, nor any manager's prestamos.
C2_RechazoSinMutacion ==
    [][ (ult'.op = "realizar_prestamo" /\ ~disponible[ult'.libro]) =>
           /\ ult'.ret = NULL
           /\ ult'.informe = "loan-rejected-unavailable"
           /\ disponible' = disponible
           /\ heap' = heap
           /\ prestamos' = prestamos ]_vars

\* C2 witness: a call was rejected while a loan is open.
C2_Witness ==
    /\ ult.op = "realizar_prestamo"
    /\ ult.ret = NULL
    /\ ~disponible[ult.libro]
    /\ Abiertos(ult.libro) # {}

\* C3: devolver_libro on a loan already returned changes neither the loan,
\* nor its book's availability, nor any prestamos, and computes no fine,
\* also when the book has been lent again in the meantime.
C3_SegundaDevolucionSinEfecto ==
    [][ ult'.op = "devolver_libro" =>
           \/ /\ ult'.informe = "already-returned"
              /\ ult'.calculos = 0
              /\ heap' = heap
              /\ disponible' = disponible
              /\ prestamos' = prestamos
           \/ /\ ult'.informe \in {"returned-late", "returned-on-time"}
              /\ ult'.prestamo \in 1..Len(heap)
              /\ ~heap[ult'.prestamo].devuelto ]_vars

\* C3 witness: a repeated return was answered while the book of the returned
\* loan is out again under a new open loan.
C3_Witness ==
    /\ ult.informe = "already-returned"
    /\ \E p, q \in 1..Len(heap) :
          /\ heap[p].devuelto
          /\ heap[q].libro = heap[p].libro
          /\ ~heap[q].devuelto
          /\ ~disponible[heap[p].libro]

\* C4 (as claimed): the loan a successful realizar_prestamo returns is due
\* exactly 14 days of 24 hours after its own loan date, and is not returned.
C4_VenceCatorceDias ==
    ult.informe = "loan-issued" =>
        /\ heap[ult.ret].fecha_devolucion =
              heap[ult.ret].fecha_prestamo + DIAS_PRESTAMO * DIA
        /\ ~heap[ult.ret].devuelto

\* C5 (as claimed): a return read at now > due reports a delay of more than
\* 0 days, and one read at now <= due reports an on-time return.
C5_RetrasoPositivo ==
    (ult.op = "devolver_libro" /\ ult.prestamo # NULL) =>
        LET vence == heap[ult.prestamo].fecha_devolucion
        IN  /\ reloj > vence =>
                 (ult.informe = "returned-late" /\ ult.dias_retraso > 0)
            /\ reloj <= vence => ult.informe = "returned-on-time"

\* C6: a return read k whole days and a remainder (k >= 1) after the due
\* date reports k days and the fine of the manager's variant for k days:
\* 10k, 5k or 0; every variant charges 0 for 0 days, and 30, 15 and 0 for 3.
C6_DiasYMulta ==
    /\ ult.informe = "returned-late" =>
         LET diff == reloj - heap[ult.prestamo].fecha_devolucion
         IN  \A k \in 1..(MaxRetraso + 1) :
                (k * DIA <= diff /\ diff < (k + 1) * DIA) =>
                    /\ ult.dias_retraso = k
                    /\ ult.multa = Tarifa(calculadora_multa[ult.gestor], k)
    /\ \A c \in Calculadoras : calcular(c, 0) = 0
    /\ calcular("MultaEstandar", 3) = 30
    /\ calcular("MultaEstudiante", 3) = 15
    /\ calcular("MultaVIP", 3) = 0

\* C6 witness: a return one whole day and a remainder late, fined 5.
C6_Witness ==
    /\ ult.informe = "returned-late"
    /\ reloj - heap[ult.prestamo].fecha_devolucion > DIA
    /\ ult.dias_retraso = 1
    /\ ult.multa = 5

\* C7: each manager's notifier has been asked to send once per loan in the
\* manager's prestamos, each time with the book already unavailable and the
\* loan already appended; a rejected call and a return send nothing.
C7_UnEnvioPorPrestamo ==
    /\ \A g \in Gestores :
          /\ Len(enviados[g]) = Len(prestamos[g])
          /\ \A i \in 1..Len(enviados[g]) :
                /\ ~enviados[g][i].libro_disponible
                /\ enviados[g][i].en_prestamos = i
                /\ enviados[g][i].envio.mensaje.titulo =
                      heap[prestamos[g][i]].libro
    /\ Len(ult.envios) = IF ult.informe = "loan-issued" THEN 1 ELSE 0

\* C7 witness: a manager with a loan, after a rejected call or a return.
C7_Witness ==
    /\ ult.informe \in {"loan-rejected-unavailable", "returned-late",
                        "returned-on-time", "already-returned"}
    /\ \E g \in Gestores : Len(enviados[g]) = 2

\* C8: when enviar answers false, realizar_prestamo still returns the new
\* loan, the book is unavailable and the loan is in prestamos, not returned.
C8_EnvioFallidoNoRevierte ==
    (ult.informe = "loan-issued" /\ ult.envios = <<FALSE>>) =>
        /\ ult.ret # NULL
        /\ ult.ret = Len(heap)
        /\ ~disponible[ult.libro]
        /\ heap[ult.ret].libro = ult.libro
        /\ ~heap[ult.ret].devuelto
        /\ prestamos[ult.gestor][Len(prestamos[ult.gestor])] = ult.ret

\* C8 witness: a loan issued with enviar answering false.
C8_Witness == ult.informe = "loan-issued" /\ ult.envios = <<FALSE>>

\* C9: devolver_libro on an open loan is always possible and leaves the loan
\* returned and its book available, on time and without a fine computed
\* when read before the due date; a returned loan stays returned.
C9_DevolucionSiempreCierra ==
    /\ [](\A g \in Gestores, p \in 1..Len(heap) :
             ~heap[p].devuelto => ENABLED devolver_libro(g, p))
    /\ [][ /\ \A p \in 1..Len(heap) : heap[p].devuelto => heap'[p].devuelto
           /\ (ult'.op = "devolver_libro" /\ ult'.informe # "already-returned") =>
                 LET p == ult'.prestamo
                 IN  /\ ~heap[p].devuelto /\ heap'[p].devuelto
                     /\ disponible'[heap[p].libro]
                     /\ ult'.informe \in {"returned-late", "returned-on-time"}
                     /\ reloj' < heap[p].fecha_devolucion =>
                           /\ ult'.informe = "returned-on-time"
                           /\ ult'.calculos = 0 ]_vars

\* C9 witness: a loan returned before its due date through the manager
\* without fines, and another returned late.
C9_Witness ==
    /\ ult.informe = "returned-on-time"
    /\ ult.gestor = "gestor_vip"
    /\ reloj < heap[ult.prestamo].fecha_devolucion
    /\ heap[ult.prestamo].devuelto
    /\ disponible[ult.libro]
    /\ \E q \in 1..Len(heap) : q # ult.prestamo /\ heap[q].devuelto

\* C10: devolver_libro of any manager returns an open loan of any other,
\* fines it with its own calculator and changes no prestamos; a prestamos
\* changes only by one loan appended by a successful realizar_prestamo.
C10_SinPropietario ==
    [][ /\ (ult'.op = "devolver_libro" /\ ult'.informe # "already-returned") =>
              LET p == ult'.prestamo
              IN  /\ heap'[p].devuelto
                  /\ disponible'[heap[p].libro]
                  /\ prestamos' = prestamos
                  /\ ult'.informe = "returned-late" =>
                        ult'.multa = Tarifa(calculadora_multa[ult'.gestor],
                                            ult'.dias_retraso)
        /\ \A g \in Gestores :
              \/ prestamos'[g] = prestamos[g]
              \/ /\ prestamos'[g] = Append(prestamos[g], Len(heap) + 1)
                 /\ ult'.informe = "loan-issued"
                 /\ ult'.gestor = g ]_vars

\* C10 witness: a loan issued by the regular manager, returned one day late
\* through the student manager and fined 5, not 10.
C10_Witness ==
    /\ ult.informe = "returned-late"
    /\ ult.gestor = "gestor_estudiante"
    /\ Emisor(ult.prestamo) = "gestor_regular"
    /\ ult.dias_retraso = 1
    /\ ult.multa = 5

====
